---- MODULE Spec2Model ----
(***************************************************************************)
(* A model of the two services of the repository:                          *)
(*   - src/server.py: the resume service (POST /extract-resume), with the  *)
(*     cleaning and JSON parsing of the model output;                      *)
(*   - src/telegram_bot.py: the chat bot, with its per-user memory and     *)
(*     history files.                                                      *)
(* Python strings are modelled as sequences of one-character strings, so   *)
(* that strip, startswith, replace, split and json.loads are computed on   *)
(* characters as the code computes them.                                   *)
(***************************************************************************)
EXTENDS Integers, Sequences, FiniteSets, TLC

VARIABLES
    \* ---- resume service (src/server.py) ----
    srv_pc,       \* position of the request handler extract_resume
    req,          \* the request being handled
    extract_out,  \* what extract_text did: "notrun", "raised" or "ok"
    raw_text,     \* the text extract_text returned
    llm_out,      \* what client.models.generate_content did
    llm_invoked,  \* whether generate_content was called for this request
    resp,         \* the HTTP response: <<status, body>>
    \* ---- the normalizer applied on its own ----
    n_in,         \* a model output text
    n_plain,      \* the result of normalizing n_in
    n_fenced,     \* the result of normalizing n_in wrapped in a json fence
    n_wrap,       \* the fence that was used
    \* ---- per-user state (src/telegram_bot.py) ----
    mem_files,    \* user -> the file memory_<user>.json
    hist_files,   \* user -> the file history_<user>.json
    now,          \* the wall clock datetime.now() reads
    \* ---- the memory and history helpers called on their own ----
    loaded,       \* user -> the result of the last load_memory since a save
    saved,        \* user -> the mapping of the last save_memory
    appended,     \* user -> the <<sender, message, time>> of the save_history calls
                  \* since the history was last cleared
    \* ---- the bot (src/telegram_bot.py) ----
    bot_pc,       \* "idle", or "reply" while a handler awaits reply_text
    cur,          \* the update being handled and the handler's locals
    reply,        \* the text handed to reply_text by the handler
    n_events,     \* the number of updates dispatched and clock ticks so far
    expected      \* user -> the <<key, value>> of the latest accepted /remember of each key

srv_vars == <<srv_pc, req, extract_out, raw_text, llm_out, llm_invoked, resp>>
norm_vars == <<n_in, n_plain, n_fenced, n_wrap>>
file_vars == <<mem_files, hist_files, now>>
call_vars == <<loaded, saved, appended>>
bot_vars == <<bot_pc, cur, reply, n_events, expected>>

----------------------------------------------------------------------------
(* Bounds *)

\* Model outputs are concatenations of at most MaxTok fragments.
MaxTok == 3

\* Keys and values of the mappings handed to save_memory have at most
\* MaxStrLen characters.
MaxStrLen == 1

\* The wall clock runs from 0 to MaxTime.
MaxTime == 1

\* save_history is called at most MaxAppends times on its own.
MaxAppends == 3

\* The bot sees at most MaxEvents events: updates and ticks of the clock.
MaxEvents == 2

\* A chat response has at most MaxParts parts, a photo response at most
\* MaxCands candidates of at most MaxParts parts.
MaxParts == 1
MaxCands == 1

----------------------------------------------------------------------------
(* Python str operations on sequences of characters *)

None == <<"None">>

Min(S) == CHOOSE x \in S : \A y \in S : x <= y
Max(S) == CHOOSE x \in S : \A y \in S : x >= y

\* the characters str.strip() removes, among those of the model
Whitespace == {" ", "\n"}

\* s.strip(chars): leading and trailing characters of cs removed
strip_chars(s, cs) ==
    LET keep == {i \in 1..Len(s) : s[i] \notin cs}
    IN  IF keep = {} THEN <<>> ELSE SubSeq(s, Min(keep), Max(keep))

\* s.strip()
strip(s) == strip_chars(s, Whitespace)

\* s.startswith(p)
startswith(s, p) == Len(s) >= Len(p) /\ SubSeq(s, 1, Len(p)) = p

\* s.endswith(p)
endswith(s, p) == Len(s) >= Len(p) /\ SubSeq(s, Len(s) - Len(p) + 1, Len(s)) = p

\* s.find(p) + 1: the first position where p occurs in s, 0 if none
find(s, p) ==
    LET at == {i \in 1..(Len(s) - Len(p) + 1) : SubSeq(s, i, i + Len(p) - 1) = p}
    IN  IF at = {} THEN 0 ELSE Min(at)

\* s.replace(old, new, 1)
replace_first(s, old, new) ==
    LET i == find(s, old)
    IN  IF i = 0 THEN s
        ELSE SubSeq(s, 1, i - 1) \o new \o SubSeq(s, i + Len(old), Len(s))

\* c in s
contains(s, c) == \E i \in 1..Len(s) : s[i] = c

----------------------------------------------------------------------------
(* json.loads on sequences of characters. A parsed value is <<tag, payload>>:
   <<"str", characters>>, <<"num", digits>>, <<"arr", values>>,
   <<"obj", <<key, value>> pairs in dict order>>. *)

JsonWs == {" ", "\n"}
Digits == {"1"}

Fail == [ok |-> FALSE, val |-> <<>>, end |-> 0]
Ok(v, e) == [ok |-> TRUE, val |-> v, end |-> e]

\* the first position from i on that holds no JSON whitespace
skip_ws(s, i) ==
    LET js == {j \in i..Len(s) : s[j] \notin JsonWs}
    IN  IF js = {} THEN Len(s) + 1 ELSE Min(js)

\* d[k] = v on a dict kept as a sequence of pairs in insertion order
RECURSIVE dict_set(_, _, _)
dict_set(d, k, v) ==
    IF d = <<>> THEN << <<k, v>> >>
    ELSE IF Head(d)[1] = k THEN << <<k, v>> >> \o Tail(d)
    ELSE << Head(d) >> \o dict_set(Tail(d), k, v)

\* a string body from position i (after the opening quote): strict mode
\* refuses a control character inside a string
scan_string(s, i) ==
    LET qs == {j \in i..Len(s) : s[j] = "\""}
    IN  IF qs = {} THEN Fail
        ELSE LET j == Min(qs)
             IN  IF \E k \in i..(j - 1) : s[k] = "\n" THEN Fail
                 ELSE Ok(<<"str", SubSeq(s, i, j - 1)>>, j + 1)

\* an integer from position i: the longest run of digits
scan_number(s, i) ==
    LET stop == {j \in i..Len(s) : s[j] \notin Digits}
        e == IF stop = {} THEN Len(s) + 1 ELSE Min(stop)
    IN  Ok(<<"num", SubSeq(s, i, e - 1)>>, e)

RECURSIVE scan_once(_, _), array_items(_, _, _), object_items(_, _, _)

\* json.scanner: one value starting at position i
scan_once(s, i) ==
    IF i > Len(s) THEN Fail
    ELSE IF s[i] = "\"" THEN scan_string(s, i + 1)
    ELSE IF s[i] = "[" THEN
        LET j == skip_ws(s, i + 1)
        IN  IF j <= Len(s) /\ s[j] = "]" THEN Ok(<<"arr", <<>>>>, j + 1)
            ELSE array_items(s, j, <<>>)
    ELSE IF s[i] = "{" THEN
        LET j == skip_ws(s, i + 1)
        IN  IF j <= Len(s) /\ s[j] = "}" THEN Ok(<<"obj", <<>>>>, j + 1)
            ELSE object_items(s, j, <<>>)
    ELSE IF s[i] \in Digits THEN scan_number(s, i)
    ELSE Fail

\* json.decoder.JSONArray: the items after "[", acc the items read so far
array_items(s, i, acc) ==
    LET r == scan_once(s, i)
    IN  IF ~r.ok THEN Fail
        ELSE LET j == skip_ws(s, r.end)
             IN  IF j > Len(s) THEN Fail
                 ELSE IF s[j] = "]" THEN Ok(<<"arr", Append(acc, r.val)>>, j + 1)
                 ELSE IF s[j] # "," THEN Fail
                 ELSE array_items(s, skip_ws(s, j + 1), Append(acc, r.val))

\* json.decoder.JSONObject: the "key": value pairs after "{"
object_items(s, i, acc) ==
    IF i > Len(s) \/ s[i] # "\"" THEN Fail
    ELSE LET k == scan_string(s, i + 1)
         IN  IF ~k.ok THEN Fail
             ELSE LET c == skip_ws(s, k.end)
                  IN  IF c > Len(s) \/ s[c] # ":" THEN Fail
                      ELSE LET r == scan_once(s, skip_ws(s, c + 1))
                           IN  IF ~r.ok THEN Fail
                               ELSE LET j == skip_ws(s, r.end)
                                        d == dict_set(acc, k.val[2], r.val)
                                    IN  IF j > Len(s) THEN Fail
                                        ELSE IF s[j] = "}" THEN Ok(<<"obj", d>>, j + 1)
                                        ELSE IF s[j] # "," THEN Fail
                                        ELSE object_items(s, skip_ws(s, j + 1), d)

\* json.loads(s): one value, whitespace around it, nothing after it
json_loads(s) ==
    LET r == scan_once(s, skip_ws(s, 1))
    IN  IF r.ok /\ skip_ws(s, r.end) > Len(s) THEN Ok(r.val, r.end) ELSE Fail

----------------------------------------------------------------------------
(* src/server.py: cleaning and parsing the model output *)

\* The backquote character: a TLA+ string cannot hold it, so it has a name.
Backquote == "bq"

Fence == <<Backquote, Backquote, Backquote>>
JsonTag == <<"j", "s", "o", "n">>

\* clean_raw_output with every backquote of the text removed, not only
\* those at its two ends
clean_raw_output_all_backquotes(text) ==
    LET a == strip(text)
        NotBackquote(c) == c # Backquote
    IN  IF startswith(a, Fence)
        THEN strip(replace_first(SelectSeq(a, NotBackquote), JsonTag, <<>>))
        ELSE a

\* lines 132-137: trim; if the text starts with a fence, strip the backticks
\* at both ends, remove the first "json" and trim again
clean_raw_output(text) ==
    LET a == strip(text)
    IN  IF startswith(a, Fence)
        THEN strip(replace_first(strip_chars(a, {Backquote}), JsonTag, <<>>))
        ELSE a

\* normalizeResumeJson with the text as received in the error record
normalizeResumeJson_raw_text(text) ==
    LET r == json_loads(clean_raw_output(text))
    IN  IF r.ok THEN <<"json", "", r.val>>
        ELSE <<"error", "JSON parsing failed", text>>

\* lines 139-145: the parsed value, or the error record with the cleaned text
normalizeResumeJson(text) ==
    LET c == clean_raw_output(text)
        r == json_loads(c)
    IN  IF r.ok THEN <<"json", "", r.val>>
        ELSE <<"error", "JSON parsing failed", c>>

\* The outcomes of client.models.generate_content: it raises, or returns a
\* response whose .text is None, or one whose .text is a string.
LlmRaise == <<"raise", <<>>>>
LlmNoText == <<"notext", <<>>>>
LlmText(s) == <<"text", s>>

\* parse_resume_with_gemini without the try/except around json.loads
parse_resume_with_gemini_no_except(llm) ==
    IF llm[1] = "text" /\ normalizeResumeJson(llm[2])[1] = "json"
    THEN [raised |-> FALSE, val |-> normalizeResumeJson(llm[2])]
    ELSE [raised |-> TRUE, val |-> <<"error", "Server error", <<llm[1]>>>>]

\* parse_resume_with_gemini from the provider's outcome on: raised tells
\* whether an exception leaves the function (the provider's, or the
\* AttributeError of None.strip() at line 132)
parse_resume_with_gemini(llm) ==
    IF llm[1] = "text"
    THEN [raised |-> FALSE, val |-> normalizeResumeJson(llm[2])]
    ELSE [raised |-> TRUE, val |-> <<"error", "Server error", <<llm[1]>>>>]

----------------------------------------------------------------------------
(* The texts a model output is drawn from *)

Tokens ==
    { Fence, <<Backquote>>, JsonTag, <<"\"">>, <<"1">>, <<"[">>, <<"]">>, <<",">>,
      <<" ">>, <<"{">>, <<"}">>, <<"\"", "n", "\"", ":">> }

RECURSIVE Concats(_)
Concats(n) ==
    IF n = 0 THEN {<<>>}
    ELSE LET p == Concats(n - 1) IN p \cup {a \o t : a \in p, t \in Tokens}

ModelOutputs == Concats(MaxTok)

----------------------------------------------------------------------------
(* src/server.py: extract_text *)

\* str.lower() on the characters of the model's file names
lower_char(c) ==
    CASE c = "R" -> "r" [] c = "D" -> "d" [] c = "O" -> "o" [] c = "C" -> "c"
      [] c = "X" -> "x" [] OTHER -> c

lower(s) == [i \in 1..Len(s) |-> lower_char(s[i])]

FileNames ==
    { <<>>, <<"r", ".", "p", "d", "f">>, <<"R", ".", "D", "O", "C", "X">>,
      <<"r", ".", "p", "n", "g">>, <<"r", ".", "t", "x", "t">> }

\* lines 64-75: the extractor the file name selects
extractor_for(filename) ==
    LET f == lower(filename)
    IN  IF endswith(f, <<".", "p", "d", "f">>) THEN "pdf"
        ELSE IF endswith(f, <<".", "d", "o", "c", "x">>) THEN "docx"
        ELSE IF endswith(f, <<".", "p", "n", "g">>)
                \/ endswith(f, <<".", "j", "p", "g">>)
                \/ endswith(f, <<".", "j", "p", "e", "g">>) THEN "image"
        ELSE "pdf"

\* what the parsing or OCR library hands back before the trim
LibraryTexts == { <<>>, <<" ">>, <<"\n", " ">>, <<"x">>, <<" ", "x", "\n">> }

\* lines 46-62: every extractor returns its text trimmed
extract_text(libtext) == strip(libtext)

----------------------------------------------------------------------------
(* src/server.py: the handler of POST /extract-resume, step by step *)

NoBody == <<"none", "", <<>>>>
ErrorBody(msg) == <<"error", msg, <<>>>>

Requests ==
    { [tooLarge |-> tl, hasFile |-> hf, filename |-> fn] :
        tl \in BOOLEAN, hf \in BOOLEAN, fn \in FileNames }

SrvFrame == UNCHANGED <<norm_vars, file_vars, call_vars, bot_vars>>

SrvInit ==
    /\ srv_pc = "idle"
    /\ req = [tooLarge |-> FALSE, hasFile |-> FALSE, filename |-> <<>>]
    /\ extract_out = "notrun"
    /\ raw_text = <<>>
    /\ llm_out = <<"notcalled", <<>>>>
    /\ llm_invoked = FALSE
    /\ resp = <<0, NoBody>>

\* a request arrives
ReceiveRequest ==
    /\ srv_pc \in {"idle", "done"}
    /\ \E r \in Requests :
         /\ r.hasFile \/ r.filename = <<>>
         /\ req' = r
    /\ srv_pc' = "validate"
    /\ extract_out' = "notrun"
    /\ raw_text' = <<>>
    /\ llm_out' = <<"notcalled", <<>>>>
    /\ llm_invoked' = FALSE
    /\ resp' = <<0, NoBody>>
    /\ SrvFrame

\* line 41 and lines 152-158: the input validation
ValidateRequest ==
    /\ srv_pc = "validate"
    /\ IF req.tooLarge
       THEN srv_pc' = "done" /\ resp' = <<413, ErrorBody("Request Entity Too Large")>>
       ELSE IF ~req.hasFile
       THEN srv_pc' = "done" /\ resp' = <<400, ErrorBody("No file in request")>>
       ELSE IF req.filename = <<>>
       THEN srv_pc' = "done" /\ resp' = <<400, ErrorBody("No selected file")>>
       ELSE srv_pc' = "extract" /\ resp' = resp
    /\ UNCHANGED <<req, extract_out, raw_text, llm_out, llm_invoked>>
    /\ SrvFrame

\* the non-blank check left out
could_not_extract_never(t) == FALSE

\* line 163: not raw_text.strip()
could_not_extract(t) == strip(t) = <<>>

\* lines 160-164 and 170-172: extraction, then the non-blank check
ExtractText ==
    /\ srv_pc = "extract"
    /\ \/ /\ srv_pc' = "done"
          /\ resp' = <<500, <<"error", "Server error", <<extractor_for(req.filename)>>>>>>
          /\ extract_out' = "raised"
          /\ raw_text' = raw_text
       \/ \E t \in LibraryTexts :
            /\ extract_out' = "ok"
            /\ raw_text' = extract_text(t)
            /\ IF could_not_extract(raw_text')
               THEN srv_pc' = "done" /\ resp' = <<400, ErrorBody("Could not extract text")>>
               ELSE srv_pc' = "llm" /\ resp' = resp
    /\ UNCHANGED <<req, llm_out, llm_invoked>>
    /\ SrvFrame

LlmOutcomes == {LlmRaise, LlmNoText} \cup {LlmText(s) : s \in ModelOutputs}

\* lines 166-172: the LLM call, the normalization and the response
ParseAndRespond ==
    /\ srv_pc = "llm"
    /\ \E o \in LlmOutcomes :
         /\ llm_out' = o
         /\ LET p == parse_resume_with_gemini(o)
            IN  resp' = <<IF p.raised THEN 500 ELSE 200, p.val>>
    /\ llm_invoked' = TRUE
    /\ srv_pc' = "done"
    /\ UNCHANGED <<req, extract_out, raw_text>>
    /\ SrvFrame

SrvNext == ReceiveRequest \/ ValidateRequest \/ ExtractText \/ ParseAndRespond

----------------------------------------------------------------------------
(* The normalizer applied to a text and to the same text inside a fence *)

NotRun == <<"notrun", "", <<>>>>

\* the fences a model output is wrapped in: the fence and the json tag, the text, the fence
Wrappers ==
    { <<Fence \o JsonTag \o <<"\n">>, <<"\n">> \o Fence>>,
      <<Fence \o JsonTag, Fence>>,
      <<<<" ">> \o Fence \o JsonTag \o <<" ">>, <<" ">> \o Fence \o <<"\n">>>> }

NormFrame == UNCHANGED <<srv_vars, file_vars, call_vars, bot_vars>>

NormInit ==
    /\ n_in \in ModelOutputs
    /\ n_plain = NotRun
    /\ n_fenced = NotRun
    /\ n_wrap = <<<<>>, <<>>>>

NormalizePlain ==
    /\ n_plain = NotRun
    /\ n_plain' = normalizeResumeJson(n_in)
    /\ UNCHANGED <<n_in, n_fenced, n_wrap>>
    /\ NormFrame

NormalizeFenced ==
    /\ n_fenced = NotRun
    /\ \E w \in Wrappers :
         /\ n_wrap' = w
         /\ n_fenced' = normalizeResumeJson(w[1] \o n_in \o w[2])
    /\ UNCHANGED <<n_in, n_plain>>
    /\ NormFrame

NormNext == NormalizePlain \/ NormalizeFenced

----------------------------------------------------------------------------
(* src/telegram_bot.py: the per-user files. A file is absent or holds a JSON
   document; a memory document is written as the dict it loads to, a sequence
   of <<key, value>> pairs in insertion order, and a history document as the
   list of its entries. *)

Users == {"u1", "u2"}

Absent == [kind |-> "absent", data |-> <<>>]
JsonFile(d) == [kind |-> "json", data |-> d]

\* load_memory that never reads the file
load_memory_ignore_file(files, user_id) == <<>>

\* lines 45-50: the mapping in the file, the empty mapping without a file
load_memory(files, user_id) ==
    IF files[user_id].kind = "json" THEN files[user_id].data ELSE <<>>

\* save_memory that adds the mapping to what the file holds
RECURSIVE merge_into(_, _)
merge_into(d, m) ==
    IF m = <<>> THEN d
    ELSE merge_into(dict_set(d, Head(m)[1], Head(m)[2]), Tail(m))

save_memory_merge(files, user_id, memory) ==
    [files EXCEPT ![user_id] =
        JsonFile(merge_into(load_memory(files, user_id), memory))]

\* lines 52-54: the file is overwritten with the mapping
save_memory(files, user_id, memory) ==
    [files EXCEPT ![user_id] = JsonFile(memory)]

\* line 61: the timestamp of the clock value t, to the second
strftime(t) == ToString(t)

\* save_history that writes the new entry in front of the others
save_history_prepend(files, user_id, sender, message, t) ==
    LET entry == [timestamp |-> strftime(t), sender |-> sender, message |-> message]
        history == IF files[user_id].kind = "json" THEN files[user_id].data ELSE <<>>
    IN  [files EXCEPT ![user_id] = JsonFile(<<entry>> \o history)]

\* save_history with one history file for all users: the path does not
\* depend on user_id
save_history_shared_path(files, user_id, sender, message, t) ==
    LET entry == [timestamp |-> strftime(t), sender |-> sender, message |-> message]
        history == IF files[user_id].kind = "json" THEN files[user_id].data ELSE <<>>
    IN  [u \in Users |-> JsonFile(Append(history, entry))]

\* lines 59-79: read the list (empty without a file or with an unparseable
\* one), append one entry, write the list
save_history(files, user_id, sender, message, t) ==
    LET entry == [timestamp |-> strftime(t), sender |-> sender, message |-> message]
        history == IF files[user_id].kind = "json" THEN files[user_id].data ELSE <<>>
    IN  [files EXCEPT ![user_id] = JsonFile(Append(history, entry))]

FilesInit ==
    /\ mem_files = [u \in Users |-> Absent]
    /\ hist_files = [u \in Users |-> Absent]
    /\ now = 0

\* the clock advances
Tick ==
    /\ now < MaxTime
    /\ now' = now + 1

----------------------------------------------------------------------------
(* load_memory, save_memory and save_history called on their own *)

RECURSIVE StringsUpTo(_)
StringsUpTo(n) ==
    IF n = 0 THEN {<<>>}
    ELSE LET p == StringsUpTo(n - 1) IN p \cup {Append(a, "k") : a \in p}

MapStrings == StringsUpTo(MaxStrLen)

\* the string-to-string mappings with at most two keys
Mappings ==
    {<<>>}
    \cup { << <<k, v>> >> : k \in MapStrings, v \in MapStrings }
    \cup { m \in { << <<k1, v1>>, <<k2, v2>> >> :
                      k1 \in MapStrings, k2 \in MapStrings,
                      v1 \in MapStrings, v2 \in MapStrings } :
             m[1][1] # m[2][1] }

NotLoaded == [done |-> FALSE, val |-> <<>>]
NotSaved == [done |-> FALSE, val |-> <<>>]

CallFrame == UNCHANGED <<srv_vars, norm_vars, bot_vars>>

CallInit ==
    /\ loaded = [u \in Users |-> NotLoaded]
    /\ saved = [u \in Users |-> NotSaved]
    /\ appended = [u \in Users |-> <<>>]

CallLoadMemory(u) ==
    /\ loaded' = [loaded EXCEPT ![u] = [done |-> TRUE, val |-> load_memory(mem_files, u)]]
    /\ UNCHANGED <<mem_files, hist_files, now, saved, appended>>
    /\ CallFrame

CallSaveMemory(u, m) ==
    /\ mem_files' = save_memory(mem_files, u, m)
    /\ saved' = [saved EXCEPT ![u] = [done |-> TRUE, val |-> m]]
    /\ loaded' = [loaded EXCEPT ![u] = NotLoaded]
    /\ UNCHANGED <<hist_files, now, appended>>
    /\ CallFrame

MemoryNext ==
    \/ \E u \in Users : CallLoadMemory(u)
    \/ \E u \in Users, m \in Mappings : CallSaveMemory(u, m)

Senders == {"You", "You (image)", "AI"}
Messages == {<<>>, <<"h", "i">>}

RECURSIVE SumLen(_, _)
SumLen(f, S) ==
    IF S = {} THEN 0
    ELSE LET x == CHOOSE y \in S : TRUE IN Len(f[x]) + SumLen(f, S \ {x})

CallSaveHistory(u, sender, message) ==
    /\ SumLen(appended, Users) < MaxAppends
    /\ hist_files' = save_history(hist_files, u, sender, message, now)
    /\ appended' = [appended EXCEPT ![u] = Append(@, <<sender, message, now>>)]
    /\ UNCHANGED <<mem_files, now, loaded, saved>>
    /\ CallFrame

CallTick ==
    /\ Tick
    /\ UNCHANGED <<mem_files, hist_files, loaded, saved, appended>>
    /\ CallFrame

HistoryNext ==
    \/ \E u \in Users, s \in Senders, m \in Messages : CallSaveHistory(u, s, m)
    \/ CallTick

----------------------------------------------------------------------------
(* src/telegram_bot.py: the handlers. The application is built without
   concurrent_updates (line 232), so run_polling (line 248) hands the updates
   to the handlers one at a time: an update is dispatched when no handler is
   running. A handler runs to its await of reply_text in one step, and from
   the outcome of reply_text to its end in another. *)

\* the text of a reply: <<template, first value, second value>>
Text(kind, a, b) == <<kind, a, b>>
NoReply == Text("none", <<>>, <<>>)

\* the reply is the empty string: only the relayed model text can be
IsEmptyText(r) == r[1] = "text" /\ r[2] = <<>>

NoUpdate == [user |-> "none", handler |-> "none", msg |-> <<>>, prompt |-> <<>>]

\* line 111: json.dumps(memory, indent=4): the items in the dict's order
json_dumps(memory) == [i \in 1..Len(memory) |-> <<memory[i][1], memory[i][2]>>]

\* "\n".join(parts)
RECURSIVE join_lines(_)
join_lines(parts) ==
    IF parts = <<>> THEN <<>>
    ELSE IF Len(parts) = 1 THEN parts[1]
    ELSE parts[1] \o <<"\n">> \o join_lines(Tail(parts))

\* lines 144, 177: one "key: value" line per item of the memory
memory_text(memory) ==
    join_lines([i \in 1..Len(memory) |-> memory[i][1] \o <<":", " ">> \o memory[i][2]])

\* lines 146, 181, 183: the message, a blank line, the memory block
with_memory(message, memory) ==
    message \o <<"\n", "\n", "(", "Memory:", "\n">> \o memory_text(memory) \o <<")">>

DescribeImage == <<"Describe this image in detail.">>
Apology == <<"I couldn't understand this image properly, sorry.">>
ImagePlaceholder == <<"[Image]">>

BotInit ==
    /\ bot_pc = "idle"
    /\ cur = NoUpdate
    /\ reply = NoReply
    /\ n_events = 0
    /\ expected = [u \in Users |-> {}]

\* the variables of the other services stay as they are
BotFrame == UNCHANGED <<srv_vars, norm_vars, loaded, saved>>

\* an update can be dispatched
CanDispatch == bot_pc = "idle" /\ n_events < MaxEvents

\* the handler of update [user, handler, msg, prompt] awaits reply_text(r)
AwaitReply(u, h, msg, prompt, r) ==
    /\ bot_pc' = "reply"
    /\ cur' = [user |-> u, handler |-> h, msg |-> msg, prompt |-> prompt]
    /\ reply' = r
    /\ n_events' = n_events + 1

\* the handler of the update ends with an exception before any reply
Abort ==
    /\ bot_pc' = "idle"
    /\ cur' = NoUpdate
    /\ reply' = NoReply
    /\ n_events' = n_events + 1

\* lines 84-95
start(u) ==
    /\ CanDispatch
    /\ AwaitReply(u, "start", <<>>, <<>>, Text("start", <<>>, <<>>))
    /\ UNCHANGED <<mem_files, hist_files, now, expected, appended>>
    /\ BotFrame

\* lines 97-98
stop(u) ==
    /\ CanDispatch
    /\ AwaitReply(u, "stop", <<>>, <<>>, Text("stop", <<>>, <<>>))
    /\ UNCHANGED <<mem_files, hist_files, now, expected, appended>>
    /\ BotFrame

\* the reset of lines 102-105 done only for a history file that exists
clear_history_if_exists(files, user_id) ==
    IF files[user_id].kind = "json"
    THEN [files EXCEPT ![user_id] = JsonFile(<<>>)]
    ELSE files

\* lines 102-105: the user's history file is opened for writing and "[]" is
\* written, whether it existed or not
clear_history(files, user_id) == [files EXCEPT ![user_id] = JsonFile(<<>>)]

\* lines 100-106: the history file is overwritten with the empty list
clear(u) ==
    /\ CanDispatch
    /\ hist_files' = clear_history(hist_files, u)
    /\ appended' = [appended EXCEPT ![u] = <<>>]
    /\ AwaitReply(u, "clear", <<>>, <<>>, Text("cleared", <<>>, <<>>))
    /\ UNCHANGED <<mem_files, now, expected>>
    /\ BotFrame

\* lines 108-111
memory_cmd(u) ==
    /\ CanDispatch
    /\ AwaitReply(u, "memory", <<>>, <<>>,
                  Text("memory", json_dumps(load_memory(mem_files, u)), <<>>))
    /\ UNCHANGED <<mem_files, hist_files, now, expected, appended>>
    /\ BotFrame

RememberCommand == <<"/", "r", "e", "m", "e", "m", "b", "e", "r">>

\* what follows "/remember " in the texts of the model
RememberArgs ==
    { <<>>, <<"k">>, <<"k", " ", "v">>,
      <<"k", "=", "v">>, <<" ", "k", " ", "=", " ", "v", " ">>,
      <<"v", "=", "k", "=", "v">>, <<"k", "=">>, <<"=", "v">> }

\* the texts the CommandHandler of "remember" is called with: the command
\* alone, or the command, a space and the rest
RememberTexts ==
    {RememberCommand} \cup {RememberCommand \o <<" ">> \o a : a \in RememberArgs}

\* line 115: the text without its first "/remember "
remember_cmd(text) == replace_first(text, RememberCommand \o <<" ">>, <<>>)

\* the "=" test of line 117 replaced by a test that the text is not empty
remember_accepts_nonempty(cmd) == cmd # <<>>

\* line 117
remember_accepts(cmd) == contains(cmd, "=")

\* the key as typed, not trimmed
remember_key_untrimmed(cmd) == SubSeq(cmd, 1, find(cmd, <<"=">>) - 1)

\* lines 121-122: split at the first "=", both sides trimmed
remember_key(cmd) == strip(SubSeq(cmd, 1, find(cmd, <<"=">>) - 1))
remember_value(cmd) == strip(SubSeq(cmd, find(cmd, <<"=">>) + 1, Len(cmd)))

\* lines 113-128
remember(u, text) ==
    /\ CanDispatch
    /\ LET cmd == remember_cmd(text)
       IN  IF ~remember_accepts(cmd)
           THEN /\ AwaitReply(u, "remember", text, <<>>, Text("usage", <<>>, <<>>))
                /\ UNCHANGED <<mem_files, expected>>
           ELSE LET key == remember_key(cmd)
                    value == remember_value(cmd)
                    memory == dict_set(load_memory(mem_files, u), key, value)
                IN  /\ mem_files' = save_memory(mem_files, u, memory)
                    /\ expected' = [expected EXCEPT ![u] =
                          {p \in @ : p[1] # key} \cup {<<key, value>>}]
                    /\ AwaitReply(u, "remember", text, <<>>,
                                  Text("remembered", key, value))
    /\ UNCHANGED <<hist_files, now, appended>>
    /\ BotFrame

\* what the .text of a part of a response is: None or a text
PartTexts == {None, <<"o", "k">>}

RECURSIVE PartsUpTo(_)
PartsUpTo(n) ==
    IF n = 0 THEN {<<>>}
    ELSE LET p == PartsUpTo(n - 1) IN p \cup {Append(a, t) : a \in p, t \in PartTexts}

\* lines 156-159, 215-217: the texts of the parts that have one, concatenated
RECURSIVE concat_texts(_)
concat_texts(parts) ==
    IF parts = <<>> THEN <<>>
    ELSE (IF Head(parts) = None THEN <<>> ELSE Head(parts))
         \o concat_texts(Tail(parts))

\* the outcomes of chat_session.send_message: it raises, or returns a reply
\* whose .parts is None or a list of parts
ChatOutcomes ==
    {<<"raise", <<>>>>, <<"parts_none", <<>>>>}
    \cup {<<"parts", ps>> : ps \in PartsUpTo(MaxParts)}

UserTexts == {<<"h", "i">>}

\* lines 133-162: up to the await of reply_text. The handler gets the texts
\* that are no commands (line 242).
chat(u, user_msg, llm) ==
    /\ CanDispatch
    /\ LET memory == load_memory(mem_files, u)
           enhanced_input == with_memory(user_msg, memory)
       IN  IF lower(user_msg) = <<"/", "s", "t", "o", "p">>
           THEN AwaitReply(u, "stop", <<>>, <<>>, Text("stop", <<>>, <<>>))
           ELSE IF llm[1] = "parts"
           THEN AwaitReply(u, "chat", user_msg, enhanced_input,
                           Text("text", concat_texts(llm[2]), <<>>))
           ELSE Abort
    /\ UNCHANGED <<mem_files, hist_files, now, expected, appended>>
    /\ BotFrame

\* a candidate of a photo response: its content is None, or the content's
\* parts are None, or they are a list of parts
Candidates ==
    {<<"content_none", <<>>>>, <<"parts_none", <<>>>>}
    \cup {<<"parts", ps>> : ps \in PartsUpTo(MaxParts)}

RECURSIVE CandidatesUpTo(_)
CandidatesUpTo(n) ==
    IF n = 0 THEN {<<>>}
    ELSE LET p == CandidatesUpTo(n - 1)
         IN  p \cup {Append(a, c) : a \in p, c \in Candidates}

\* the outcomes of the download and of client.models.generate_content: the
\* download raises, or generate_content raises, or it returns a response
\* whose .candidates is None or a list of candidates
PhotoOutcomes ==
    {<<"download_raise", <<>>>>, <<"raise", <<>>>>, <<"candidates_none", <<>>>>}
    \cup {<<"candidates", cs>> : cs \in CandidatesUpTo(MaxCands)}

\* response.text: the texts of the first candidate's parts, None when there
\* is no candidate, no content, no part or no part with a text
response_text(response) ==
    IF response[1] # "candidates" \/ response[2] = <<>> THEN None
    ELSE LET c == response[2][1]
         IN  IF c[1] # "parts" THEN None
             ELSE IF \A i \in 1..Len(c[2]) : c[2][i] = None THEN None
             ELSE concat_texts(c[2])

\* the loop of lines 214-217 raises: .candidates is None, or a candidate has
\* no content or no parts
fallback_raises(response) ==
    \/ response[1] # "candidates"
    \/ \E i \in 1..Len(response[2]) : response[2][i][1] # "parts"

RECURSIVE all_parts(_)
all_parts(cands) ==
    IF cands = <<>> THEN <<>> ELSE Head(cands)[2] \o all_parts(Tail(cands))

\* lines 209-219
photo_ai_text(response) ==
    LET t == response_text(response)
        ai_text == IF t = None THEN <<>> ELSE t
    IN  IF ai_text # <<>> THEN ai_text
        ELSE IF fallback_raises(response) THEN Apology
        ELSE concat_texts(all_parts(response[2]))

Captions == {<<>>, <<" ">>, <<"c">>}

\* lines 171-222: up to the await of reply_text
handle_photo(u, caption, response) ==
    /\ CanDispatch
    /\ LET memory == load_memory(mem_files, u)
           prompt == IF strip(caption) # <<>>
                     THEN with_memory(caption, memory)
                     ELSE with_memory(DescribeImage, memory)
       IN  IF response[1] \notin {"download_raise", "raise"}
           THEN AwaitReply(u, "photo", caption, prompt,
                           Text("text", photo_ai_text(response), <<>>))
           ELSE Abort
    /\ UNCHANGED <<mem_files, hist_files, now, expected, appended>>
    /\ BotFrame

\* ReplyDelivered with the two save_history calls of the handler exchanged:
\* the assistant entry is written before the inbound one
ReplyDelivered_ai_first ==
    /\ bot_pc = "reply"
    /\ ~IsEmptyText(reply)
    /\ IF cur.handler \in {"chat", "photo"}
       THEN LET inbound == IF cur.handler = "chat" THEN cur.msg
                           ELSE IF cur.msg # <<>> THEN cur.msg ELSE ImagePlaceholder
                sender == IF cur.handler = "chat" THEN "You" ELSE "You (image)"
                h1 == save_history(hist_files, cur.user, "AI", reply[2], now)
            IN  /\ hist_files' = save_history(h1, cur.user, sender, inbound, now)
                /\ appended' = [appended EXCEPT ![cur.user] =
                      @ \o << <<"AI", reply[2], now>>, <<sender, inbound, now>> >>]
       ELSE UNCHANGED <<hist_files, appended>>
    /\ bot_pc' = "idle"
    /\ cur' = NoUpdate
    /\ reply' = NoReply
    /\ UNCHANGED <<mem_files, now, n_events, expected>>
    /\ BotFrame

\* reply_text returns: the handler goes on to its end. Telegram refuses an
\* empty text, so a reply that is delivered has one. Lines 165-166 and
\* 225-226 write the two history entries.
ReplyDelivered ==
    /\ bot_pc = "reply"
    /\ ~IsEmptyText(reply)
    /\ IF cur.handler \in {"chat", "photo"}
       THEN LET inbound == IF cur.handler = "chat" THEN cur.msg
                           ELSE IF cur.msg # <<>> THEN cur.msg ELSE ImagePlaceholder
                sender == IF cur.handler = "chat" THEN "You" ELSE "You (image)"
                h1 == save_history(hist_files, cur.user, sender, inbound, now)
            IN  /\ hist_files' = save_history(h1, cur.user, "AI", reply[2], now)
                /\ appended' = [appended EXCEPT ![cur.user] =
                      @ \o << <<sender, inbound, now>>, <<"AI", reply[2], now>> >>]
       ELSE UNCHANGED <<hist_files, appended>>
    /\ bot_pc' = "idle"
    /\ cur' = NoUpdate
    /\ reply' = NoReply
    /\ UNCHANGED <<mem_files, now, n_events, expected>>
    /\ BotFrame

\* reply_text raises: the exception ends the handler
ReplyFailed ==
    /\ bot_pc = "reply"
    /\ bot_pc' = "idle"
    /\ cur' = NoUpdate
    /\ reply' = NoReply
    /\ UNCHANGED <<mem_files, hist_files, now, n_events, expected, appended>>
    /\ BotFrame

BotTick ==
    /\ n_events < MaxEvents
    /\ Tick
    /\ n_events' = n_events + 1
    /\ UNCHANGED <<mem_files, hist_files, bot_pc, cur, reply, expected, appended>>
    /\ BotFrame

BotNext ==
    \/ \E u \in Users : start(u)
    \/ \E u \in Users : stop(u)
    \/ \E u \in Users : clear(u)
    \/ \E u \in Users : memory_cmd(u)
    \/ \E u \in Users, t \in RememberTexts : remember(u, t)
    \/ \E u \in Users, t \in UserTexts, o \in ChatOutcomes : chat(u, t, o)
    \/ \E u \in Users, c \in Captions, o \in PhotoOutcomes : handle_photo(u, c, o)
    \/ ReplyDelivered
    \/ ReplyFailed
    \/ BotTick

----------------------------------------------------------------------------
(* Specifications *)

vars == <<srv_vars, norm_vars, file_vars, call_vars, bot_vars>>

NormIdle ==
    /\ n_in = <<>>
    /\ n_plain = NotRun
    /\ n_fenced = NotRun
    /\ n_wrap = <<<<>>, <<>>>>

Idle == FilesInit /\ CallInit /\ BotInit

\* every service before its first step
Init == SrvInit /\ NormIdle /\ Idle

\* a model output is chosen for the normalizer
InitNorm == NormInit /\ SrvInit /\ Idle

\* the bot
Spec == Init /\ [][BotNext]_vars

\* the resume service
SpecResume == Init /\ [][SrvNext]_vars

\* the normalizer on its own
SpecNorm == InitNorm /\ [][NormNext]_vars

\* load_memory and save_memory called in any order
SpecMemory == Init /\ [][MemoryNext]_vars

\* save_history called in any order while the clock runs
SpecHistory == Init /\ [][HistoryNext]_vars

----------------------------------------------------------------------------
(* Claims about the resume service and the normalizer *)

\* the request passed the input validation and its file was extracted to
\* non-blank text
ExtractedNonBlank ==
    /\ ~req.tooLarge /\ req.hasFile /\ req.filename # <<>>
    /\ extract_out = "ok"
    /\ strip(raw_text) # <<>>

\* C2, as stated: once a file with a non-empty file name has been extracted
\* to non-blank text, the response has status 200, whatever the LLM call did.
C2_AlwaysSuccess ==
    (srv_pc = "done" /\ ExtractedNonBlank) => resp[1] = 200

\* C2, amended: after such an extraction, a response of the LLM that has text
\* gives status 200 with the parsed structure or the "JSON parsing failed"
\* record; an LLM call that raises, or a response without text, gives status
\* 500 with the "Server error" body.
C2_SuccessUnlessLlmFails ==
    (srv_pc = "done" /\ ExtractedNonBlank) =>
        /\ llm_out[1] \in {"text", "raise", "notext"}
        /\ llm_out[1] = "text" =>
             /\ resp[1] = 200
             /\ \/ resp[2][1] = "json"
                \/ resp[2][1] = "error" /\ resp[2][2] = "JSON parsing failed"
        /\ llm_out[1] \in {"raise", "notext"} =>
             resp[1] = 500 /\ resp[2][2] = "Server error"

C2_Witness ==
    /\ srv_pc = "done" /\ ExtractedNonBlank
    /\ llm_out[1] = "text"
    /\ resp[1] = 200 /\ resp[2][1] = "json"

\* C3: a model output that is not valid JSON after cleaning is answered with
\* status 200 and the record {error: "JSON parsing failed", raw_output: the
\* cleaned text}; the failed parse never becomes a 500.
C3_InvalidJsonGivesErrorRecord ==
    (srv_pc = "done" /\ llm_out[1] = "text"
        /\ ~json_loads(clean_raw_output(llm_out[2])).ok) =>
        resp = <<200, <<"error", "JSON parsing failed", clean_raw_output(llm_out[2])>>>>

\* an invalid output in a fence: the cleaned text differs from the output
C3_Witness ==
    /\ srv_pc = "done" /\ llm_out[1] = "text"
    /\ startswith(llm_out[2], Fence)
    /\ Len(clean_raw_output(llm_out[2])) > 0
    /\ resp[1] = 200 /\ resp[2][1] = "error"
    /\ resp[2][3] = clean_raw_output(llm_out[2])
    /\ resp[2][3] # llm_out[2]

\* C4: for a valid JSON text t, normalizing t inside a fence with a json tag
\* gives the same parsed structure as normalizing t itself.
C4_FencedEqualsUnfenced ==
    (n_plain # NotRun /\ n_fenced # NotRun /\ json_loads(n_in).ok) =>
        /\ n_plain = <<"json", "", json_loads(n_in).val>>
        /\ n_fenced = n_plain

\* a valid JSON text that holds a backquote and one that holds "json", both
\* normalized with and without the fence
C4_Witness ==
    /\ n_plain # NotRun /\ n_fenced # NotRun
    /\ json_loads(n_in).ok
    /\ contains(n_in, Backquote) \/ find(n_in, JsonTag) > 0
    /\ n_fenced[1] = "json"

\* C10: when the extraction succeeds with blank text the response is 400
\* "Could not extract text" and the LLM is not invoked; the LLM is invoked
\* only for a request that passed the validation and the non-blank check.
C10_BlankTextNeverReachesLlm ==
    /\ (srv_pc = "done" /\ extract_out = "ok" /\ strip(raw_text) = <<>>) =>
          /\ resp = <<400, ErrorBody("Could not extract text")>>
          /\ ~llm_invoked
          /\ llm_out[1] = "notcalled"
    /\ llm_invoked => ExtractedNonBlank

C10_Witness ==
    /\ srv_pc = "done" /\ extract_out = "ok" /\ raw_text = <<>>
    /\ resp = <<400, ErrorBody("Could not extract text")>>
    /\ ~llm_invoked

----------------------------------------------------------------------------
(* Claims about the memory and history helpers *)

\* C6: load_memory of a user without a record returns the empty mapping, and
\* load_memory after save_memory(user, m) returns exactly m, whatever the
\* file held before the save.
C6_LoadReturnsWhatWasSaved ==
    \A u \in Users :
        loaded[u].done =>
            /\ ~saved[u].done => loaded[u].val = <<>>
            /\ saved[u].done => loaded[u].val = saved[u].val

\* a load after a second save of a smaller mapping over a larger one
C6_Witness ==
    \E u \in Users :
        /\ loaded[u].done /\ saved[u].done
        /\ Len(loaded[u].val) = 1
        /\ loaded[u].val = saved[u].val
        /\ ~loaded[CHOOSE w \in Users : w # u].done

\* the entries of a user's history file
Entries(u) == IF hist_files[u].kind = "json" THEN hist_files[u].data ELSE <<>>

\* C7: every save_history call leaves the entries of the user's history as
\* they are and adds one entry with its sender and message at the end, so the
\* history of a user holds, in call order, one entry per call with that
\* call's sender, message and timestamp.
C7_AppendKeepsOrder ==
    \A u \in Users :
        /\ Len(Entries(u)) = Len(appended[u])
        /\ \A i \in 1..Len(appended[u]) :
              /\ Entries(u)[i].sender = appended[u][i][1]
              /\ Entries(u)[i].message = appended[u][i][2]
              /\ Entries(u)[i].timestamp = strftime(appended[u][i][3])

\* two calls for one user with different senders and messages, the second
\* after a tick of the clock
C7_Witness ==
    \E u \in Users :
        /\ Len(Entries(u)) = 2
        /\ Entries(u)[1].sender = "You" /\ Entries(u)[1].message = <<"h", "i">>
        /\ Entries(u)[2].sender = "AI" /\ Entries(u)[2].message = <<>>
        /\ Entries(u)[1].timestamp # Entries(u)[2].timestamp

----------------------------------------------------------------------------
(* Claims about the bot *)

\* the mapping in a user's memory file
Memory(u) == load_memory(mem_files, u)

\* the pair <<k, v>> is an item of the mapping m
HasPair(m, k, v) == \E i \in 1..Len(m) : m[i][1] = k /\ m[i][2] = v

\* C1: the text handed to reply_text for a text message or a photo message
\* is never the empty string.
C1_ReplyNeverEmpty ==
    (bot_pc = "reply" /\ cur.handler \in {"chat", "photo"}) => ~IsEmptyText(reply)

RememberArg(text) == SubSeq(text, Len(RememberCommand) + 2, Len(text))

\* C8: after /remember key=value the user's memory maps the trimmed key to
\* the trimmed value and every other key to what it held; the pair stays
\* until a /remember of the same key; /memory replies with the serialized
\* memory, which holds the pair.
C8_RememberThenMemory ==
    /\ \A u \in Users :
          /\ \A p \in expected[u] : HasPair(Memory(u), p[1], p[2])
          /\ \A i \in 1..Len(Memory(u)) : <<Memory(u)[i][1], Memory(u)[i][2]>> \in expected[u]
          /\ Len(Memory(u)) = Cardinality(expected[u])
    /\ (bot_pc = "reply" /\ cur.handler = "remember" /\ contains(cur.msg, "=")) =>
          LET arg == RememberArg(cur.msg)
              eq == find(arg, <<"=">>)
              key == strip(SubSeq(arg, 1, eq - 1))
              value == strip(SubSeq(arg, eq + 1, Len(arg)))
          IN  /\ reply = Text("remembered", key, value)
              /\ <<key, value>> \in expected[cur.user]
    /\ (bot_pc = "reply" /\ cur.handler = "memory") =>
          /\ reply[1] = "memory"
          /\ \A p \in expected[cur.user] : HasPair(reply[2], p[1], p[2])
          /\ Len(reply[2]) = Cardinality(expected[cur.user])

\* /memory after a /remember whose key and value are not empty
C8_Witness ==
    /\ bot_pc = "reply" /\ cur.handler = "memory"
    /\ HasPair(reply[2], <<"k">>, <<"v">>)

\* C9: a /remember whose argument has no "=" is answered with the usage text
\* and leaves the memory files as they are; a /remember is accepted only when
\* its argument holds a "=".
C9_RememberNeedsSeparator ==
    [][ (bot_pc = "idle" /\ bot_pc' = "reply" /\ cur'.handler = "remember") =>
          IF contains(RememberArg(cur'.msg), "=")
          THEN reply'[1] = "remembered"
          ELSE /\ reply' = Text("usage", <<>>, <<>>)
               /\ mem_files' = mem_files
               /\ expected' = expected ]_vars

\* the usage reply to "/remember k" for a user whose memory is not empty
C9_Witness ==
    /\ bot_pc = "reply" /\ cur.handler = "remember"
    /\ cur.msg = RememberCommand \o <<" ", "k">>
    /\ reply = Text("usage", <<>>, <<>>)
    /\ Memory(cur.user) # <<>>

\* a /clear of user u is dispatched in this step
ClearStep(u) == bot_pc = "idle" /\ cur'.handler = "clear" /\ cur'.user = u

\* C11: a user's history is append-only and cleared only by that user's
\* /clear: every step that is no /clear of the user keeps the entries of the
\* user's history in place, unaltered and in order (it may add entries at the
\* end), and a /clear of the user leaves the record holding the empty list,
\* whether a record existed or not.
C11_HistoryAppendOnly ==
    [][ \A u \in Users :
          IF ClearStep(u)
          THEN hist_files'[u] = JsonFile(<<>>)
          ELSE /\ hist_files[u].kind = "json" => hist_files'[u].kind = "json"
               /\ Len(hist_files'[u].data) >= Len(Entries(u))
               /\ SubSeq(hist_files'[u].data, 1, Len(Entries(u))) = Entries(u) ]_vars

\* a /clear has been handled for a user who had no history file, after an
\* exchange of the other user was appended and left in place
C11_Witness ==
    /\ bot_pc = "reply" /\ cur.handler = "clear"
    /\ hist_files[cur.user] = JsonFile(<<>>)
    /\ \E w \in Users \ {cur.user} : Len(Entries(w)) = 2


\* a text or photo message is handed to its handler in this step, and the
\* handler reaches its reply
MessageStep == bot_pc = "idle" /\ bot_pc' = "reply" /\ cur'.handler \in {"chat", "photo"}

\* C12: for a text or photo message the LLM is invoked with a prompt built
\* from the memory loaded before, the reply is relayed before anything is
\* appended, and when the relay returns the user's history has gained exactly
\* two entries at its end: the inbound message (sender "You", or
\* "You (image)" for a photo), then the "AI" entry with the text that was
\* relayed. When the LLM call or the relay fails, nothing is appended.
C12_ExchangeAppendedAfterReply ==
    [][ /\ MessageStep =>
             /\ cur'.prompt =
                  with_memory(IF cur'.handler = "chat" \/ strip(cur'.msg) # <<>>
                              THEN cur'.msg ELSE DescribeImage,
                              Memory(cur'.user))
             /\ reply'[1] = "text"
             /\ hist_files' = hist_files
        /\ (bot_pc = "idle" /\ bot_pc' = "idle") => hist_files' = hist_files
        /\ ReplyFailed => hist_files' = hist_files
        /\ (ReplyDelivered /\ cur.handler \in {"chat", "photo"}) =>
             LET u == cur.user
                 n == Len(Entries(u))
                 e == hist_files'[u].data
             IN  /\ hist_files'[u].kind = "json"
                 /\ Len(e) = n + 2
                 /\ SubSeq(e, 1, n) = Entries(u)
                 /\ e[n + 1].sender = (IF cur.handler = "chat" THEN "You" ELSE "You (image)")
                 /\ e[n + 1].message =
                      (IF cur.handler = "photo" /\ cur.msg = <<>>
                       THEN ImagePlaceholder ELSE cur.msg)
                 /\ e[n + 2].sender = "AI"
                 /\ e[n + 2].message = reply[2]
                 /\ reply[2] # <<>>
                 /\ \A w \in Users \ {u} : hist_files'[w] = hist_files[w] ]_vars

\* a photo without caption whose response had no usable candidate: the
\* apology was relayed and the exchange appended
C12_Witness ==
    \E u \in Users :
        /\ bot_pc = "idle"
        /\ Len(Entries(u)) = 2
        /\ Entries(u)[1].sender = "You (image)"
        /\ Entries(u)[1].message = ImagePlaceholder
        /\ Entries(u)[2].sender = "AI"
        /\ Entries(u)[2].message = Apology

\* the user whose update is handled in this step, "none" in a step that
\* handles no update
Actor == IF bot_pc = "idle" THEN cur'.user ELSE cur.user

\* the files as they would be with only the files of user a
OwnFiles(files, a) == [u \in Users |-> IF u = a THEN files[u] ELSE Absent]

\* C13: every operation performed for a user leaves the memory file and the
\* history file of every other user as they are, and the prompt and the
\* replies made for the user are those made from the user's message and the
\* user's own memory alone.
C13_PerUserIsolation ==
    [][ /\ \A b \in Users \ {Actor} :
             /\ mem_files'[b] = mem_files[b]
             /\ hist_files'[b] = hist_files[b]
        /\ (bot_pc = "idle" /\ bot_pc' = "reply") =>
             LET a == cur'.user
                 own == load_memory(OwnFiles(mem_files, a), a)
             IN  /\ cur'.handler \in {"chat", "photo"} =>
                      cur'.prompt =
                        with_memory(IF cur'.handler = "chat" \/ strip(cur'.msg) # <<>>
                                    THEN cur'.msg ELSE DescribeImage, own)
                 /\ cur'.handler = "memory" =>
                      reply' = Text("memory", json_dumps(own), <<>>)
                 /\ cur'.handler = "remember" =>
                      /\ reply' \in
                           { Text("usage", <<>>, <<>>),
                             Text("remembered",
                                  remember_key(remember_cmd(cur'.msg)),
                                  remember_value(remember_cmd(cur'.msg))) }
                      /\ mem_files'[a] \in
                           { mem_files[a],
                             JsonFile(dict_set(own,
                                  remember_key(remember_cmd(cur'.msg)),
                                  remember_value(remember_cmd(cur'.msg)))) } ]_vars

\* an exchange of one user was appended after a /remember of the other: the
\* first has a history and no memory, the other a memory and no history
C13_Witness ==
    \E a \in Users : \E b \in Users \ {a} :
        /\ bot_pc = "idle"
        /\ Len(Entries(a)) = 2 /\ mem_files[a] = Absent
        /\ Memory(b) # <<>> /\ hist_files[b] = Absent

====
